---- MODULE Spec2Model ----
(***************************************************************************)
(* Peripheral-communication layer of the Apitor Q / Apitor X extensions:   *)
(* connection lifecycle, command framing, rate limiting and notification   *)
(* decoding (classes ApitorQ / ApitorX and the block adapters that call    *)
(* them).  Handlers run to completion on one event loop, so each handler   *)
(* is one action.                                                          *)
(***************************************************************************)
EXTENDS Integers, Sequences, FiniteSets, TLC

\* ------------------------------------------------------------------------
\* Protocol constants
\* ------------------------------------------------------------------------

\* LED ids (the same in both variants)
ApitorQ_LedID == [L1 |-> 1, L2 |-> 2, ALL |-> 4, ALLSTOP |-> 3]

\* LED colour ids
ApitorQ_LedColorID ==
    [OFF |-> 0, RED |-> 1, ORANGE |-> 2, YELLOW |-> 3,
     GREEN |-> 4, CYAN |-> 5, BLUE |-> 6, PURPLE |-> 7]

\* motor ids: variant Q has two motors, variant X three
ApitorQ_MotorID == [M1 |-> 6, M2 |-> 7, ALL |-> 9, ALLSTOP |-> 16]

\* motor ids of variant X with the all-stop id of the LEDs
ApitorX_MotorIDLedStop == [M1 |-> 6, M2 |-> 7, M3 |-> 8, ALL |-> 9, ALLSTOP |-> 3]

ApitorX_MotorID == [M1 |-> 6, M2 |-> 7, M3 |-> 8, ALL |-> 9, ALLSTOP |-> 16]

\* motor directions
ApitorQ_MotorDirectionID == [D1 |-> 1, D2 |-> 2, STOP |-> 0]

\* infrared sensor ids
ApitorQ_InfraredID == [R1 |-> 0]

ApitorX_InfraredID == [R1 |-> 0, R2 |-> 1]

\* a ceiling that is one send short
BLESendRateMaxShort == 20 - 1

\* maximum number of sends per second enforced by the rate limiter
BLESendRateMax == 20

\* length of the rate limiter's window, in milliseconds
Window == 1000

\* the base64 alphabet, one character per element
Base64Alphabet ==
    <<"A", "B", "C", "D", "E", "F", "G", "H", "I", "J", "K", "L", "M", "N",
      "O", "P", "Q", "R", "S", "T", "U", "V", "W", "X", "Y", "Z", "a", "b",
      "c", "d", "e", "f", "g", "h", "i", "j", "k", "l", "m", "n", "o", "p",
      "q", "r", "s", "t", "u", "v", "w", "x", "y", "z", "0", "1", "2", "3",
      "4", "5", "6", "7", "8", "9", "+", "/">>

\* the 6-bit value of a base64 character
Base64Value(ch) == (CHOOSE i \in 1..Len(Base64Alphabet) : Base64Alphabet[i] = ch) - 1

\* Base64Util.base64ToUint8Array: the bytes a base64 text stands for
base64ToUint8Array(text) ==
    LET chars == SelectSeq(text, LAMBDA ch : ch # "=")
        val(i) == IF i <= Len(chars) THEN Base64Value(chars[i]) ELSE 0
        pow2(k) == IF k = 0 THEN 1 ELSE IF k = 2 THEN 4 ELSE 16
        byte(k) == LET first == (8 * k) \div 6
                       offset == (8 * k) % 6
                   IN  ((val(first + 1) * 64 + val(first + 2))
                           \div pow2(4 - offset)) % 256
    IN  [k \in 1..((Len(chars) * 6) \div 8) |-> byte(k - 1)]

\* the literal "VaoRIGR5b3pXT1BmMDUyZ1dWUDQ=" of ApitorQ._sendPassword
ApitorQ_PasswordBase64 ==
    <<"V", "a", "o", "R", "I", "G", "R", "5", "b", "3", "p", "X", "T", "1",
      "B", "m", "M", "D", "U", "y", "Z", "1", "d", "W", "U", "D", "Q", "=">>

\* the literal "VaoRIFVJTThMVnlSbnVwaXNlQnY=" of ApitorX._sendPassword
ApitorX_PasswordBase64 ==
    <<"V", "a", "o", "R", "I", "F", "V", "J", "T", "T", "h", "M", "V", "n",
      "l", "S", "b", "n", "V", "w", "a", "X", "N", "l", "Q", "n", "Y", "=">>

\* a password literal that lost its last four characters
ApitorQ_PasswordCut ==
    base64ToUint8Array(SubSeq(ApitorQ_PasswordBase64, 1, Len(ApitorQ_PasswordBase64) - 4))

\* the password of variant Q
ApitorQ_Password == base64ToUint8Array(ApitorQ_PasswordBase64)

\* the password of variant X
ApitorX_Password == base64ToUint8Array(ApitorX_PasswordBase64)

Variants == {"Q", "X"}

MotorID(v) == IF v = "Q" THEN ApitorQ_MotorID ELSE ApitorX_MotorID

Password(v) == IF v = "Q" THEN ApitorQ_Password ELSE ApitorX_Password

\* ------------------------------------------------------------------------
\* Bounds of the model
\* ------------------------------------------------------------------------

\* the clock stops advancing at MaxTime (milliseconds)
MaxTime == 1000

\* the amounts by which the clock advances between two handlers
Steps == {500}

\* the longest listing of commands to which a handler may still add
MaxCalls == 2

\* the largest blink tick count given to setLED
MaxTicks == 2

\* ------------------------------------------------------------------------
\* JavaScript values held in a command array: <<n>> is the number n and
\* <<>> is undefined (a parameter the caller did not pass)
\* ------------------------------------------------------------------------
Num(n) == <<n>>

undefined == <<>>

\* Base64Util.uint8ArrayToBase64 followed by the transport's decoding: the
\* bytes that reach the characteristic.  An undefined element becomes 0.
uint8ArrayToBase64(message) ==
    [i \in 1..Len(message) |->
        IF message[i] = undefined THEN 0 ELSE message[i][1] % 256]

\* Base64Util.base64ToUint8Array of a constant: a typed array of numbers
Uint8Array(bytes) == [i \in 1..Len(bytes) |-> Num(bytes[i])]

\* ------------------------------------------------------------------------
\* State
\* ------------------------------------------------------------------------
VARIABLES
    variant,    \* which class this session is: "Q" (ApitorQ) or "X" (ApitorX)
    ble,        \* this._ble: "null" or the state of the transport handle
    lim,        \* this._rateLimiter: [count, start]
    sensor,     \* the sensor snapshot this._sensorColor, _sensorInfrared1, ...
    now,        \* the clock, in milliseconds since construction
    last,       \* the handler that ran last: what it was given and what it did
    probe,      \* the most recent okayToSend() call: its rank in its window, its
                \* result, whether it opened a window, whether it followed a rejection
    link,       \* per established link: password written, handler registrations,
                \* the notification in flight from the peripheral, if any
    watch,      \* whether the times of the actuator writes are being recorded
    actTimes,   \* times of the actuator writes of the trailing Window milliseconds
    accepted,   \* <<d>> when d is the last notification accepted since the
                \* snapshot was last reset, <<>> when there is none
    twin,       \* <<t>> when a session t of the other variant is driven by the
                \* same handlers with the same arguments, <<>> when none is
    old,        \* <<S>> when S is the set of states of the handles that scan()
                \* has replaced, <<>> when they are not followed
    trace       \* <<r>> when r.calls lists the actuator commands passed to
                \* send() and r.wire the frames passed to the transport's
                \* write since the listing began, <<>> when nothing is listed

vars == <<variant, ble, lim, sensor, now, last, probe, link, watch, actTimes,
          accepted, twin, old, trace>>

BleStates == {"null", "discovering", "connecting", "connected", "closed"}

ZeroSensor(v) ==
    IF v = "Q"
    THEN [sensorColor |-> 0, sensorInfrared1 |-> 0, sensorPower |-> 0]
    ELSE [sensorColor |-> 0, sensorInfrared1 |-> 0, sensorInfrared2 |-> 0,
          sensorPower |-> 0]

\* a reset() of variant X that was copied from variant Q
resetAsInQ(v, s) ==
    [s EXCEPT !.sensorColor = 0, !.sensorInfrared1 = 0, !.sensorPower = 0]

\* reset(): the snapshot afterwards
reset(v, s) ==
    IF v = "Q"
    THEN [s EXCEPT !.sensorColor = 0, !.sensorInfrared1 = 0, !.sensorPower = 0]
    ELSE [s EXCEPT !.sensorColor = 0, !.sensorInfrared1 = 0,
                   !.sensorInfrared2 = 0, !.sensorPower = 0]

\* ------------------------------------------------------------------------
\* Rate limiter (util/rateLimiter.js): a count of sends within the current
\* window plus the window's start time
\* ------------------------------------------------------------------------
NewRateLimiter == [count |-> 0, start |-> 0]

\* an okayToSend() that counts the calls it rejects
okayToSendCounting(l, t) ==
    LET elapsed == t - l.start >= Window
        c == IF elapsed THEN 0 ELSE l.count
        s == IF elapsed THEN t ELSE l.start
    IN  IF c < BLESendRateMax
        THEN [ok |-> TRUE,  lim |-> [count |-> c + 1, start |-> s]]
        ELSE [ok |-> FALSE, lim |-> [count |-> c + 1, start |-> s]]

\* okayToSend() at time t: the limiter afterwards and the answer
okayToSend(l, t) ==
    LET elapsed == t - l.start >= Window
        c == IF elapsed THEN 0 ELSE l.count
        s == IF elapsed THEN t ELSE l.start
    IN  IF c < BLESendRateMax
        THEN [ok |-> TRUE,  lim |-> [count |-> c + 1, start |-> s]]
        ELSE [ok |-> FALSE, lim |-> [count |-> c, start |-> s]]

\* the rank of a call inside its window, saturating above the ceiling
Rank(p, l, t) ==
    IF t - l.start >= Window THEN 1
    ELSE IF p.rank > BLESendRateMax THEN p.rank ELSE p.rank + 1

NoProbe == [rank |-> 0, result |-> TRUE, fresh |-> FALSE, afterReject |-> FALSE]

\* ------------------------------------------------------------------------
\* isConnected() and send()
\* ------------------------------------------------------------------------
\* a connection test that only looks for the handle
isConnectedHandleOnly(b) == b # "null"

isConnected(b) == IF b # "null" THEN b = "connected" ELSE FALSE

\* What a handler has done so far: the limiter, the probe, the outcome of
\* each send() it made and the calls it made on the transport handle.
Effect(l, p) == [lim |-> l, probe |-> p, sends |-> <<>>, io |-> <<>>]

Io(api, data) == [api |-> api, data |-> data]

Sent(e, message, outcome) ==
    Append(e.sends, [frame |-> uint8ArrayToBase64(message), outcome |-> outcome])

\* a send() that writes whatever the rate limiter answers
sendIgnoringVerdict(e, c, t, message, useLimiter) ==
    IF ~c
    THEN [e EXCEPT !.sends = Sent(e, message, "offline")]
    ELSE LET r == okayToSend(e.lim, t)
             p == [rank   |-> Rank(e.probe, e.lim, t),
                   result |-> r.ok,
                   fresh  |-> t - e.lim.start >= Window,
                   afterReject |-> ~e.probe.result]
         IN  [e EXCEPT !.lim = r.lim, !.probe = p,
                       !.sends = Sent(e, message, IF r.ok THEN "write" ELSE "limited"),
                       !.io = Append(@, Io("write", uint8ArrayToBase64(message)))]

\* a send() that asks the rate limiter before it looks at the connection
sendLimiterFirst(e, c, t, message, useLimiter) ==
    LET r == okayToSend(e.lim, t)
        p == [rank   |-> Rank(e.probe, e.lim, t),
              result |-> r.ok,
              fresh  |-> t - e.lim.start >= Window,
              afterReject |-> ~e.probe.result]
    IN  IF useLimiter /\ ~r.ok
        THEN [e EXCEPT !.lim = r.lim, !.probe = p,
                       !.sends = Sent(e, message, "limited")]
        ELSE LET e1 == IF useLimiter THEN [e EXCEPT !.lim = r.lim, !.probe = p]
                       ELSE e
             IN  IF ~c
                 THEN [e1 EXCEPT !.sends = Sent(e, message, "offline")]
                 ELSE [e1 EXCEPT !.sends = Sent(e, message, "write"),
                                 !.io = Append(@, Io("write",
                                                     uint8ArrayToBase64(message)))]

\* a send() that puts its write in front of the writes made before it
sendPrepending(e, c, t, message, useLimiter) ==
    IF ~c
    THEN [e EXCEPT !.sends = Sent(e, message, "offline")]
    ELSE IF useLimiter
         THEN LET r == okayToSend(e.lim, t)
                  p == [rank   |-> Rank(e.probe, e.lim, t),
                        result |-> r.ok,
                        fresh  |-> t - e.lim.start >= Window,
                        afterReject |-> ~e.probe.result]
              IN  IF ~r.ok
                  THEN [e EXCEPT !.lim = r.lim, !.probe = p,
                                 !.sends = Sent(e, message, "limited")]
                  ELSE [e EXCEPT !.lim = r.lim, !.probe = p,
                                 !.sends = Sent(e, message, "write"),
                                 !.io = <<Io("write", uint8ArrayToBase64(message))>> \o @]
         ELSE [e EXCEPT !.sends = Sent(e, message, "write"),
                        !.io = <<Io("write", uint8ArrayToBase64(message))>> \o @]

\* send(uuid, message, useLimiter) when isConnected() is c and the time is t
send(e, c, t, message, useLimiter) ==
    IF ~c
    THEN [e EXCEPT !.sends = Sent(e, message, "offline")]
    ELSE IF useLimiter
         THEN LET r == okayToSend(e.lim, t)
                  p == [rank   |-> Rank(e.probe, e.lim, t),
                        result |-> r.ok,
                        fresh  |-> t - e.lim.start >= Window,
                        afterReject |-> ~e.probe.result]
              IN  IF ~r.ok
                  THEN [e EXCEPT !.lim = r.lim, !.probe = p,
                                 !.sends = Sent(e, message, "limited")]
                  ELSE [e EXCEPT !.lim = r.lim, !.probe = p,
                                 !.sends = Sent(e, message, "write"),
                                 !.io = Append(@, Io("write", uint8ArrayToBase64(message)))]
         ELSE [e EXCEPT !.sends = Sent(e, message, "write"),
                        !.io = Append(@, Io("write", uint8ArrayToBase64(message)))]

\* ------------------------------------------------------------------------
\* Command encoders
\* ------------------------------------------------------------------------

\* a setLED that keeps the id ALL when the colour is OFF
setLEDcmdKeepsAll(id, color, offTime, onTime) ==
    <<Num(85), Num(170), Num(4), Num(id), Num(color), onTime, offTime>>

\* a setLED whose length byte was copied from the motor command
setLEDcmdMotorLength(id, color, offTime, onTime) ==
    LET id2 == IF color = 0 /\ id = ApitorQ_LedID.ALL
               THEN ApitorQ_LedID.ALLSTOP ELSE id
    IN  <<Num(85), Num(170), Num(3), Num(id2), Num(color), onTime, offTime>>

\* the array setLED(id, color, offTime, onTime) builds
setLEDcmd(id, color, offTime, onTime) ==
    LET id2 == IF color = 0 /\ id = ApitorQ_LedID.ALL
               THEN ApitorQ_LedID.ALLSTOP ELSE id
    IN  <<Num(85), Num(170), Num(4), Num(id2), Num(color), onTime, offTime>>

\* a setMotor that leaves a negative speed negative
setMotorcmdSigned(v, id, speed) ==
    LET direction == IF speed > 0 THEN ApitorQ_MotorDirectionID.D1
                     ELSE IF speed = 0 THEN ApitorQ_MotorDirectionID.STOP
                     ELSE ApitorQ_MotorDirectionID.D2
        id2 == IF speed = 0 /\ id = MotorID(v).ALL THEN MotorID(v).ALLSTOP ELSE id
    IN  <<Num(85), Num(170), Num(3), Num(id2), Num(direction), Num(speed)>>

\* a setMotor that keeps the id ALL when the speed is 0
setMotorcmdKeepsAll(v, id, speed) ==
    LET direction == IF speed > 0 THEN ApitorQ_MotorDirectionID.D1
                     ELSE IF speed = 0 THEN ApitorQ_MotorDirectionID.STOP
                     ELSE ApitorQ_MotorDirectionID.D2
        speed1 == IF speed > 0 \/ speed = 0 THEN speed ELSE -speed
    IN  <<Num(85), Num(170), Num(3), Num(id), Num(direction), Num(speed1)>>

\* the array setMotor(id, speed) builds
setMotorcmd(v, id, speed) ==
    LET direction == IF speed > 0 THEN ApitorQ_MotorDirectionID.D1
                     ELSE IF speed = 0 THEN ApitorQ_MotorDirectionID.STOP
                     ELSE ApitorQ_MotorDirectionID.D2
        speed1 == IF speed > 0 \/ speed = 0 THEN speed ELSE -speed
        speed2 == IF direction = ApitorQ_MotorDirectionID.STOP THEN 0 ELSE speed1
        id2 == IF speed2 = 0 /\ id = MotorID(v).ALL THEN MotorID(v).ALLSTOP ELSE id
    IN  <<Num(85), Num(170), Num(3), Num(id2), Num(direction), Num(speed2)>>

setLED(e, c, t, id, color, offTime, onTime) ==
    send(e, c, t, setLEDcmd(id, color, offTime, onTime), TRUE)

setMotor(e, c, t, v, id, speed) ==
    send(e, c, t, setMotorcmd(v, id, speed), TRUE)

\* a stopAll() that switches the LEDs off before it stops the motors
stopAllLedFirst(e, c, t, v) ==
    IF ~c THEN e
    ELSE setMotor(setLED(e, c, t, ApitorQ_LedID.ALL, ApitorQ_LedColorID.OFF,
                         undefined, undefined),
                  c, t, v, MotorID(v).ALL, 0)

\* stopAll(): nothing when not connected, else all motors stop, all LEDs off
stopAll(e, c, t, v) ==
    IF ~c THEN e
    ELSE setLED(setMotor(e, c, t, v, MotorID(v).ALL, 0), c, t,
                ApitorQ_LedID.ALL, ApitorQ_LedColorID.OFF, undefined, undefined)

\* _sendPassword(): send() with its third parameter left at its default
sendPassword(e, c, t, v) == send(e, c, t, Uint8Array(Password(v)), TRUE)

\* ------------------------------------------------------------------------
\* Notification decoder
\* ------------------------------------------------------------------------

\* data[i] != b in JavaScript: an index past the end reads undefined
differs(data, i, b) == IF i < Len(data) THEN data[i + 1] # b ELSE TRUE

\* an _onMessage that reads the power one byte too early
onMessagePowerShifted(v, s, data) ==
    IF differs(data, 0, 85) \/ differs(data, 1, 170) \/ differs(data, 2, 5)
       \/ Len(data) # 8
    THEN s
    ELSE IF v = "Q"
         THEN [sensorColor |-> data[5], sensorInfrared1 |-> data[6],
               sensorPower |-> data[7]]
         ELSE [sensorColor |-> data[5], sensorInfrared1 |-> data[6],
               sensorInfrared2 |-> data[7], sensorPower |-> data[7]]

\* an _onMessage that only turns away frames shorter than 8 bytes
onMessageLongFrames(v, s, data) ==
    IF differs(data, 0, 85) \/ differs(data, 1, 170) \/ differs(data, 2, 5)
       \/ Len(data) < 8
    THEN s
    ELSE IF v = "Q"
         THEN [sensorColor |-> data[5], sensorInfrared1 |-> data[6],
               sensorPower |-> data[8]]
         ELSE [sensorColor |-> data[5], sensorInfrared1 |-> data[6],
               sensorInfrared2 |-> data[7], sensorPower |-> data[8]]

\* an _onMessage of variant X that leaves the second infrared reading alone
onMessageKeepsInfrared2(v, s, data) ==
    IF differs(data, 0, 85) \/ differs(data, 1, 170) \/ differs(data, 2, 5)
       \/ Len(data) # 8
    THEN s
    ELSE IF v = "Q"
         THEN [sensorColor |-> data[5], sensorInfrared1 |-> data[6],
               sensorPower |-> data[8]]
         ELSE [sensorColor |-> data[5], sensorInfrared1 |-> data[6],
               sensorInfrared2 |-> s.sensorInfrared2, sensorPower |-> data[8]]

\* _onMessage(base64): the snapshot after the notification data
onMessage(v, s, data) ==
    IF differs(data, 0, 85) \/ differs(data, 1, 170) \/ differs(data, 2, 5)
       \/ Len(data) # 8
    THEN s
    ELSE IF v = "Q"
         THEN [sensorColor |-> data[5], sensorInfrared1 |-> data[6],
               sensorPower |-> data[8]]
         ELSE [sensorColor |-> data[5], sensorInfrared1 |-> data[6],
               sensorInfrared2 |-> data[7], sensorPower |-> data[8]]

\* a hatInfrared whose switch falls back to the equality test
hatInfraredDefaultEquals(v, s, args) ==
    LET id == args.INFRARED_ID
        reference == args.REFERENCE
        value == IF v = "Q" THEN s.sensorInfrared1
                 ELSE IF id = ApitorX_InfraredID.R1 THEN s.sensorInfrared1
                 ELSE s.sensorInfrared2
    IN  CASE args.OP = "<" -> value < reference
          [] args.OP = ">" -> value > reference
          [] OTHER -> value = reference

\* a hatInfrared of variant X that was copied from variant Q
hatInfraredFirstOnly(v, s, args) ==
    LET reference == args.REFERENCE
        value == s.sensorInfrared1
    IN  CASE args.OP = "<" -> value < reference
          [] args.OP = "=" -> value = reference
          [] args.OP = ">" -> value > reference
          [] OTHER -> FALSE

\* hatInfrared(args) and booleanInfrared(args) on the snapshot s
hatInfrared(v, s, args) ==
    LET id == args.INFRARED_ID
        reference == args.REFERENCE
        value == IF v = "Q" THEN s.sensorInfrared1
                 ELSE IF id = ApitorX_InfraredID.R1 THEN s.sensorInfrared1
                 ELSE s.sensorInfrared2
    IN  CASE args.OP = "<" -> value < reference
          [] args.OP = "=" -> value = reference
          [] args.OP = ">" -> value > reference
          [] OTHER -> FALSE

\* ------------------------------------------------------------------------
\* Inputs of the session model
\* ------------------------------------------------------------------------

\* (id, speed) pairs given to setMotor
MotorArgs(v) == {<<MotorID(v).ALL, 0>>, <<MotorID(v).M1, -5>>}

\* (id, color, offTime, onTime) tuples given to setLED
LedArgs == {<<ApitorQ_LedID.ALL, ApitorQ_LedColorID.OFF, Num(0), Num(0)>>,
            <<ApitorQ_LedID.L1, ApitorQ_LedColorID.RED, Num(2), Num(1)>>}

\* the largest speed setMotor is documented for: [-16 ... 0 ... +16]
MaxSpeed == 16

\* the motor ids and the LED ids the block menus offer
MotorMenu(v) ==
    IF v = "Q"
    THEN {ApitorQ_MotorID.M1, ApitorQ_MotorID.M2, ApitorQ_MotorID.ALL}
    ELSE {ApitorX_MotorID.M1, ApitorX_MotorID.M2, ApitorX_MotorID.M3,
          ApitorX_MotorID.ALL}

LedMenu == {ApitorQ_LedID.L1, ApitorQ_LedID.L2, ApitorQ_LedID.ALL}

LedColors == {ApitorQ_LedColorID[k] : k \in DOMAIN ApitorQ_LedColorID}

\* every (id, speed) pair of the contract of setMotor
AllMotorArgs(v) == MotorMenu(v) \X ((-MaxSpeed)..MaxSpeed)

\* every (id, color, offTime, onTime) tuple of the contract of setLED
AllLedArgs ==
    {<<i, c, Num(off), Num(on)>> :
        i \in LedMenu, c \in LedColors, off \in {0, MaxTicks}, on \in {0, MaxTicks}}

\* arguments of the motor blocks
MotorOnArgs(v) ==
    {[MOTOR_ID |-> MotorID(v).M1, MOTOR_SPEED |-> 16,
      MOTOR_DIRECTION_ID |-> ApitorQ_MotorDirectionID.D2],
     [MOTOR_ID |-> MotorID(v).ALL, MOTOR_SPEED |-> 1,
      MOTOR_DIRECTION_ID |-> ApitorQ_MotorDirectionID.D1]}

MotorOffArgs(v) == {[MOTOR_ID |-> MotorID(v).M2]}

\* the speeds of the MOTOR_SPEED menu
SpeedMenu == 1..MaxSpeed

\* the directions of the MOTOR_DIRECTION_ID menu
DirectionMenu == {ApitorQ_MotorDirectionID.D1, ApitorQ_MotorDirectionID.D2}

\* every choice of the menus of the motor blocks
AllMotorOnArgs(v) ==
    {[MOTOR_ID |-> i, MOTOR_SPEED |-> n, MOTOR_DIRECTION_ID |-> d] :
        i \in MotorMenu(v), n \in SpeedMenu, d \in DirectionMenu}

AllMotorOffArgs(v) == {[MOTOR_ID |-> i] : i \in MotorMenu(v)}

\* arguments of the LED blocks
LedOnArgs == {[LED_ID |-> ApitorQ_LedID.L2, LED_COLOR_ID |-> 9]}

LedBlinkArgs ==
    {[LED_ID |-> ApitorQ_LedID.L1, LED_COLOR_ID |-> 1, ON_TIME |-> 1, OFF_TIME |-> 2],
     [LED_ID |-> ApitorQ_LedID.ALL, LED_COLOR_ID |-> 8, ON_TIME |-> 3, OFF_TIME |-> 3]}

\* a notification of the wire format: 8 bytes starting 0x55 0xAA 0x05
ValidNotification(data) ==
    /\ Len(data) = 8
    /\ data[1] = 85
    /\ data[2] = 170
    /\ data[3] = 5

\* well-formed notifications over a few values of every payload byte
WellFormed ==
    {<<85, 170, 5, b3, b4, b5, b6, b7>> :
        b3 \in {0, 1}, b4 \in {0, 3}, b5 \in {0, 7}, b6 \in {0, 4}, b7 \in {0, 9}}

\* notifications of a wrong length or with a wrong header
Malformed ==
    {<<>>, <<85>>, <<85, 170>>, <<85, 170, 5, 0>>,
     <<85, 170, 5, 0, 3, 7, 4>>,
     <<85, 170, 5, 0, 3, 7, 4, 9, 1>>,
     <<84, 170, 5, 0, 3, 7, 4, 9>>,
     <<85, 171, 5, 0, 3, 7, 4, 9>>,
     <<85, 170, 3, 0, 3, 7, 4, 9>>}

AllNotifications == WellFormed \union Malformed

\* the infrared sensors the INFRARED_ID menu offers
InfraredMenu(v) ==
    IF v = "Q" THEN {ApitorQ_InfraredID.R1}
    ELSE {ApitorX_InfraredID.R1, ApitorX_InfraredID.R2}

\* comparison operators: the three of the OP menu and some that are not
Operators == {"<", "=", ">", "<=", ">=", "==", ""}

\* references around the readings the notifications carry
References == {0, 2, 4, 7, 8}

\* the arguments of hatInfrared and booleanInfrared
HatArgs(v) ==
    {[INFRARED_ID |-> i, OP |-> o, REFERENCE |-> r] :
        i \in InfraredMenu(v), o \in Operators, r \in References}

\* (id, speed) pairs with a motor id that both variants have
CommonMotorArgs ==
    (MotorMenu("Q") \intersect MotorMenu("X")) \X {-MaxSpeed, -1, 0, 1, MaxSpeed}

\* the arguments of hatInfrared with either infrared id on both variants
AnyHatArgs ==
    {[INFRARED_ID |-> i, OP |-> o, REFERENCE |-> r] :
        i \in {ApitorX_InfraredID.R1, ApitorX_InfraredID.R2},
        o \in {"<", "=", ">"}, r \in References}

\* notifications the peripheral pushes
Notifications == {<<85, 170, 5, 0, 3, 7, 0, 9>>,
                  <<85, 170, 5, 1, 1, 2, 4, 5>>,
                  <<85, 170, 5, 0>>}

\* ------------------------------------------------------------------------
\* Handlers
\* ------------------------------------------------------------------------
NoLink == [pwd |-> FALSE, subs |-> 0, flying |-> <<>>]

Call(op, args, e) ==
    [op |-> op, args |-> args, conn |-> isConnected(ble), lim0 |-> lim,
     sensor0 |-> sensor, sends |-> e.sends, io |-> e.io, ret |-> <<>>,
     inflight |-> link.flying,
     again |-> (op = "disconnect" /\ last.op = "disconnect")]

\* the variant of the twin session
Other(v) == IF v = "Q" THEN "X" ELSE "Q"

\* the twin session after the handler that last' records has run on it too,
\* at the same time and on a transport in the same connection state
Mirror ==
    IF twin = <<>> THEN twin
    ELSE LET t  == twin[1]
             v  == Other(variant)
             op == last'.op
             a  == last'.args
             c  == last'.conn
             e0 == Effect(t.lim, t.probe)
             e  == CASE op = "setMotor" -> setMotor(e0, c, now, v, a[1], a[2])
                    [] op = "setLED" -> setLED(e0, c, now, a[1], a[2], a[3], a[4])
                    [] op = "stopAll" -> stopAll(e0, c, now, v)
                    [] op = "_onConnect" -> sendPassword(e0, c, now, v)
                    [] OTHER -> e0
             s  == CASE op = "_onMessage" -> onMessage(v, t.sensor, a)
                    [] op \in {"reset", "linkLoss", "disconnect"} -> reset(v, t.sensor)
                    [] OTHER -> t.sensor
         IN  <<[lim |-> e.lim, probe |-> e.probe, sensor |-> s, sends |-> e.sends]>>

\* the frames the last handler handed to the transport's write, in order
Wire ==
    LET w == SelectSeq(last.io, LAMBDA x : x.api = "write")
    IN  [i \in 1..Len(w) |-> w[i].data]

\* the frames e handed to the transport's write, in order
Writes(e) ==
    LET w == SelectSeq(e.io, LAMBDA x : x.api = "write")
    IN  [i \in 1..Len(w) |-> w[i].data]

\* one time stamp per frame handed to the transport's write by e
Stamps(e) ==
    LET w == SelectSeq(e.io, LAMBDA x : x.api = "write")
    IN  [i \in 1..Len(w) |-> now]

\* the newest BLESendRateMax + 1 entries of a sequence of time stamps
Newest(q) ==
    IF Len(q) <= BLESendRateMax + 1 THEN q
    ELSE SubSeq(q, Len(q) - BLESendRateMax, Len(q))

\* new ApitorQ(runtime, extensionId)
Constructed ==
    /\ variant \in Variants
    /\ ble = "null"
    /\ lim = NewRateLimiter
    /\ sensor = ZeroSensor(variant)
    /\ now = 0
    /\ last = [op |-> "constructor", args |-> <<>>, conn |-> FALSE,
               lim0 |-> NewRateLimiter, sensor0 |-> ZeroSensor(variant),
               sends |-> <<>>, io |-> <<>>, ret |-> <<>>, inflight |-> <<>>,
               again |-> FALSE]
    /\ probe = NoProbe
    /\ link = NoLink
    /\ actTimes = <<>>
    /\ accepted = <<>>

Init == Constructed /\ watch = FALSE /\ twin = <<>> /\ old = <<>> /\ trace = <<>>

\* the same session with the times of its actuator writes recorded
InitRate == Constructed /\ watch = TRUE /\ twin = <<>> /\ old = <<>> /\ trace = <<>>

\* the same session with the handles that scan() replaces followed
InitHandles == Constructed /\ watch = FALSE /\ twin = <<>> /\ old = <<{}>>
               /\ trace = <<>>

\* a session of each variant, constructed side by side
InitPair ==
    /\ Constructed
    /\ watch = FALSE
    /\ twin = <<[lim |-> NewRateLimiter, probe |-> NoProbe,
                 sensor |-> ZeroSensor(Other(variant)), sends |-> <<>>]>>
    /\ old = <<>> /\ trace = <<>>

\* a scan() that drops the handle it replaces without disconnecting it
ScanLeaking ==
    LET e == [Effect(lim, probe) EXCEPT !.io = <<Io("new", <<>>)>>]
    IN  /\ ble' = "discovering"
        /\ link' = NoLink
        /\ old' = IF old # <<>> /\ ble # "null" THEN <<old[1] \union {ble}>> ELSE old
        /\ last' = Call("scan", <<>>, e)
        /\ twin' = Mirror
        /\ UNCHANGED <<variant, trace, lim, sensor, now, probe, watch, actTimes, accepted>>

\* scan()
Scan ==
    LET e == [Effect(lim, probe) EXCEPT
                !.io = (IF ble # "null" THEN <<Io("disconnect", <<>>)>> ELSE <<>>)
                       \o <<Io("new", <<>>)>>]
    IN  /\ ble' = "discovering"
        /\ link' = NoLink
        /\ old' = IF old # <<>> /\ ble # "null" THEN <<old[1] \union {"closed"}>>
                  ELSE old
        /\ last' = Call("scan", <<>>, e)
        /\ twin' = Mirror
        /\ UNCHANGED <<variant, trace, lim, sensor, now, probe, watch, actTimes, accepted>>

\* a connect(id) that calls the handle without looking whether there is one
ConnectUnguarded ==
    LET e == [Effect(lim, probe) EXCEPT
                !.io = IF ble # "null" THEN <<Io("connectPeripheral", <<>>)>>
                       ELSE <<Io("throw", <<>>)>>]
    IN  /\ ble' = IF ble = "discovering" THEN "connecting" ELSE ble
        /\ last' = Call("connect", <<>>, e)
        /\ twin' = Mirror
        /\ UNCHANGED <<variant, trace, old, lim, sensor, now, probe, link, watch,
                       actTimes, accepted>>

\* connect(id)
Connect ==
    LET e == [Effect(lim, probe) EXCEPT
                !.io = IF ble # "null" THEN <<Io("connectPeripheral", <<>>)>>
                       ELSE <<>>]
    IN  /\ ble' = IF ble = "discovering" THEN "connecting" ELSE ble
        /\ last' = Call("connect", <<>>, e)
        /\ twin' = Mirror
        /\ UNCHANGED <<variant, trace, old, lim, sensor, now, probe, link, watch, actTimes, accepted>>

\* the transport reports the link established and calls _onConnect()
OnConnect ==
    /\ ble = "connecting"
    /\ LET e1 == sendPassword(Effect(lim, probe), TRUE, now, variant)
           e  == [e1 EXCEPT !.io = Append(@, Io("startNotifications", <<>>))]
       IN  /\ ble' = "connected"
           /\ lim' = e.lim
           /\ probe' = e.probe
           /\ link' = [pwd  |-> \E i \in 1..Len(e.io) : e.io[i].api = "write",
                       subs |-> 1, flying |-> <<>>]
           /\ last' = [Call("_onConnect", <<>>, e) EXCEPT !.conn = TRUE]
    /\ twin' = Mirror
    /\ UNCHANGED <<variant, trace, old, sensor, now, watch, actTimes, accepted>>

\* a reset() that also starts the rate limiter afresh
ResetRenewingLimiter ==
    /\ sensor' = reset(variant, sensor)
    /\ accepted' = <<>>
    /\ lim' = NewRateLimiter
    /\ last' = Call("reset", <<>>, Effect(lim, probe))
    /\ twin' = Mirror
    /\ UNCHANGED <<variant, trace, old, ble, now, probe, link, watch, actTimes>>

\* reset()
Reset ==
    /\ sensor' = reset(variant, sensor)
    /\ accepted' = <<>>
    /\ last' = Call("reset", <<>>, Effect(lim, probe))
    /\ twin' = Mirror
    /\ UNCHANGED <<variant, trace, old, ble, lim, now, probe, link, watch, actTimes>>

\* the transport reports a failed connection attempt or a lost link and
\* calls the reset callback
LinkLoss ==
    /\ ble \in {"connecting", "connected"}
    /\ ble' = "closed"
    /\ link' = NoLink
    /\ sensor' = reset(variant, sensor)
    /\ accepted' = <<>>
    /\ last' = Call("linkLoss", <<>>, Effect(lim, probe))
    /\ twin' = Mirror
    /\ UNCHANGED <<variant, trace, old, lim, now, probe, watch, actTimes>>

\* a disconnect() that calls the handle without looking whether there is one
DisconnectUnguarded ==
    IF ble = "null"
    THEN /\ last' = Call("disconnect", <<>>,
                         [Effect(lim, probe) EXCEPT !.io = <<Io("throw", <<>>)>>])
         /\ twin' = Mirror
         /\ UNCHANGED <<variant, trace, old, ble, lim, sensor, now, probe, link, watch,
                        actTimes, accepted>>
    ELSE /\ ble' = "closed"
         /\ link' = NoLink
         /\ sensor' = reset(variant, sensor)
         /\ accepted' = <<>>
         /\ last' = Call("disconnect", <<>>,
                         [Effect(lim, probe) EXCEPT !.io = <<Io("disconnect", <<>>)>>])
         /\ twin' = Mirror
         /\ UNCHANGED <<variant, trace, old, lim, now, probe, watch, actTimes>>

\* a disconnect() on a transport that still delivers what was in flight
DisconnectKeepsInFlight ==
    LET e == [Effect(lim, probe) EXCEPT
                !.io = IF ble # "null" THEN <<Io("disconnect", <<>>)>> ELSE <<>>]
    IN  /\ ble' = IF ble # "null" THEN "closed" ELSE ble
        /\ link' = [NoLink EXCEPT !.flying = link.flying]
        /\ sensor' = reset(variant, sensor)
        /\ accepted' = <<>>
        /\ last' = Call("disconnect", <<>>, e)
        /\ twin' = Mirror
        /\ UNCHANGED <<variant, trace, old, lim, now, probe, watch, actTimes>>

\* disconnect()
Disconnect ==
    LET e == [Effect(lim, probe) EXCEPT
                !.io = IF ble # "null" THEN <<Io("disconnect", <<>>)>> ELSE <<>>]
    IN  /\ ble' = IF ble # "null" THEN "closed" ELSE ble
        /\ link' = NoLink
        /\ sensor' = reset(variant, sensor)
        /\ accepted' = <<>>
        /\ last' = Call("disconnect", <<>>, e)
        /\ twin' = Mirror
        /\ UNCHANGED <<variant, trace, old, lim, now, probe, watch, actTimes>>

\* what a handler that sends actuator commands leaves behind
Commanded(op, args, e) ==
    /\ lim' = e.lim
    /\ probe' = e.probe
    /\ last' = Call(op, args, e)
    /\ actTimes' = IF watch THEN Newest(actTimes \o Stamps(e)) ELSE actTimes
    /\ twin' = Mirror
    /\ IF trace = <<>> THEN TRUE ELSE Len(trace[1].calls) < MaxCalls
    /\ trace' = IF trace = <<>> THEN trace
                ELSE <<[calls |-> trace[1].calls \o e.sends,
                        wire  |-> trace[1].wire \o Writes(e)]>>
    /\ UNCHANGED <<variant, old, ble, sensor, now, link, watch, accepted>>

\* setMotor(id, speed)
SetMotor ==
    \E a \in MotorArgs(variant) :
        Commanded("setMotor", a,
                  setMotor(Effect(lim, probe), isConnected(ble), now, variant,
                           a[1], a[2]))

\* setLED(id, color, offTime, onTime)
SetLED ==
    \E a \in LedArgs :
        Commanded("setLED", a,
                  setLED(Effect(lim, probe), isConnected(ble), now,
                         a[1], a[2], a[3], a[4]))

\* setMotor(id, speed) over its whole contract
SetMotorAny ==
    \E a \in AllMotorArgs(variant) :
        Commanded("setMotor", a,
                  setMotor(Effect(lim, probe), isConnected(ble), now, variant,
                           a[1], a[2]))

\* setLED(id, color, offTime, onTime) over its whole contract
SetLEDAny ==
    \E a \in AllLedArgs :
        Commanded("setLED", a,
                  setLED(Effect(lim, probe), isConnected(ble), now,
                         a[1], a[2], a[3], a[4]))

\* setMotor(id, speed) with the motor ids both variants have
SetMotorCommon ==
    \E a \in CommonMotorArgs :
        Commanded("setMotor", a,
                  setMotor(Effect(lim, probe), isConnected(ble), now, variant,
                           a[1], a[2]))

\* the runtime emits PROJECT_STOP_ALL: stopAll()
StopAll ==
    Commanded("stopAll", <<>>,
              stopAll(Effect(lim, probe), isConnected(ble), now, variant))

\* MathUtil.wrapClamp(n, min, max) on integers
wrapClamp(n, min, max) == ((n - min) % (max - min + 1)) + min

\* commandMotorOn(args)
CommandMotorOn ==
    \E a \in MotorOnArgs(variant) :
        LET speed == IF a.MOTOR_DIRECTION_ID = ApitorQ_MotorDirectionID.D2
                     THEN -a.MOTOR_SPEED ELSE a.MOTOR_SPEED
        IN  Commanded("commandMotorOn", a,
                      setMotor(Effect(lim, probe), isConnected(ble), now, variant,
                               a.MOTOR_ID, speed))

\* commandMotorOff(args)
CommandMotorOff ==
    \E a \in MotorOffArgs(variant) :
        Commanded("commandMotorOff", a,
                  setMotor(Effect(lim, probe), isConnected(ble), now, variant,
                           a.MOTOR_ID, 0))

\* commandMotorOn(args) over every choice of its menus
CommandMotorOnAny ==
    \E a \in AllMotorOnArgs(variant) :
        LET speed == IF a.MOTOR_DIRECTION_ID = ApitorQ_MotorDirectionID.D2
                     THEN -a.MOTOR_SPEED ELSE a.MOTOR_SPEED
        IN  Commanded("commandMotorOn", a,
                      setMotor(Effect(lim, probe), isConnected(ble), now, variant,
                               a.MOTOR_ID, speed))

\* commandMotorOff(args) over every choice of its menu
CommandMotorOffAny ==
    \E a \in AllMotorOffArgs(variant) :
        Commanded("commandMotorOff", a,
                  setMotor(Effect(lim, probe), isConnected(ble), now, variant,
                           a.MOTOR_ID, 0))

\* commandSetLedOn(args)
CommandSetLedOn ==
    \E a \in LedOnArgs :
        LET color == wrapClamp(a.LED_COLOR_ID, 0, 7)
        IN  Commanded("commandSetLedOn", a,
                      setLED(Effect(lim, probe), isConnected(ble), now,
                             a.LED_ID, color, Num(0), Num(0)))

\* commandSetLedBlink(args): setLED(id, color, ontime, offtime)
CommandSetLedBlink ==
    \E a \in LedBlinkArgs :
        LET color == wrapClamp(a.LED_COLOR_ID, 0, 7)
            ontime == Num(a.ON_TIME)
            offtime == Num(a.OFF_TIME)
        IN  Commanded("commandSetLedBlink", a,
                      setLED(Effect(lim, probe), isConnected(ble), now,
                             a.LED_ID, color, ontime, offtime))

\* an _onMessage that acknowledges every notification with a frame
NotifiedAnswering(data) ==
    /\ sensor' = onMessage(variant, sensor, data)
    /\ accepted' = IF ValidNotification(data) THEN <<data>> ELSE accepted
    /\ last' = Call("_onMessage", data,
                    send(Effect(lim, probe), isConnected(ble), now,
                         <<Num(85), Num(170), Num(0)>>, FALSE))

\* what _onMessage(data) leaves behind
Notified(data) ==
    /\ sensor' = onMessage(variant, sensor, data)
    /\ accepted' = IF ValidNotification(data) THEN <<data>> ELSE accepted
    /\ last' = Call("_onMessage", data, Effect(lim, probe))

\* the transport delivers a notification to _onMessage
OnMessage ==
    /\ ble = "connected"
    /\ link.subs > 0
    /\ \E data \in Notifications : Notified(data)
    /\ twin' = Mirror
    /\ UNCHANGED <<variant, trace, old, ble, lim, now, probe, link, watch, actTimes>>

\* the transport delivers any notification, well-formed or not
OnMessageAny ==
    /\ ble = "connected"
    /\ link.subs > 0
    /\ \E data \in AllNotifications : Notified(data)
    /\ twin' = Mirror
    /\ UNCHANGED <<variant, trace, old, ble, lim, now, probe, link, watch, actTimes>>

\* the peripheral pushes a notification, which is then in flight
Emit ==
    /\ ble = "connected"
    /\ link.subs > 0
    /\ link.flying = <<>>
    /\ \E data \in Notifications :
        /\ link' = [link EXCEPT !.flying = <<data>>]
        /\ last' = Call("emit", data, Effect(lim, probe))
    /\ twin' = Mirror
    /\ UNCHANGED <<variant, trace, old, ble, lim, sensor, now, probe, watch, actTimes,
                   accepted>>

\* the transport delivers the notification in flight to _onMessage
Deliver ==
    /\ link.flying # <<>>
    /\ Notified(link.flying[1])
    /\ link' = [link EXCEPT !.flying = <<>>]
    /\ twin' = Mirror
    /\ UNCHANGED <<variant, trace, old, ble, lim, now, probe, watch, actTimes>>

\* the listing of the commands and of the writes begins
StartTrace ==
    /\ trace = <<>>
    /\ trace' = <<[calls |-> <<>>, wire |-> <<>>]>>
    /\ last' = Call("startTrace", <<>>, Effect(lim, probe))
    /\ twin' = Mirror
    /\ UNCHANGED <<variant, old, ble, lim, sensor, now, probe, link, watch,
                   actTimes, accepted>>

\* the runtime evaluates a hatInfrared or booleanInfrared block
HatInfrared ==
    /\ \E a \in HatArgs(variant) :
        last' = [Call("hatInfrared", a, Effect(lim, probe))
                    EXCEPT !.ret = <<hatInfrared(variant, sensor, a)>>]
    /\ twin' = Mirror
    /\ UNCHANGED <<variant, trace, old, ble, lim, sensor, now, probe, link, watch, actTimes,
                   accepted>>

\* hatInfrared or booleanInfrared called with either infrared id
HatInfraredAnyId ==
    /\ \E a \in AnyHatArgs :
        last' = [Call("hatInfrared", a, Effect(lim, probe))
                    EXCEPT !.ret = <<hatInfrared(variant, sensor, a)>>]
    /\ twin' = Mirror
    /\ UNCHANGED <<variant, trace, old, ble, lim, sensor, now, probe, link, watch,
                   actTimes, accepted>>

\* time passes between two handlers
Tick ==
    /\ now < MaxTime
    /\ \E d \in Steps :
        /\ now' = now + d
        /\ actTimes' = SelectSeq(actTimes, LAMBDA t : t > now + d - Window)
    /\ last' = Call("tick", <<>>, Effect(lim, probe))
    /\ twin' = Mirror
    /\ UNCHANGED <<variant, trace, old, ble, lim, sensor, probe, link, watch, accepted>>

Next ==
    \/ Scan
    \/ Connect
    \/ OnConnect
    \/ Reset
    \/ LinkLoss
    \/ Disconnect
    \/ SetMotor
    \/ SetLED
    \/ StopAll
    \/ CommandMotorOn
    \/ CommandMotorOff
    \/ CommandSetLedOn
    \/ CommandSetLedBlink
    \/ OnMessage
    \/ Tick

Spec == Init /\ [][Next]_vars

\* the handlers that make up the outbound traffic, with the write times recorded
NextRate ==
    \/ Scan
    \/ Connect
    \/ OnConnect
    \/ SetMotor
    \/ StopAll
    \/ Tick

SpecRate == InitRate /\ [][NextRate]_vars

\* the command encoders driven over their whole contract
NextEnc ==
    \/ Scan
    \/ Connect
    \/ OnConnect
    \/ SetMotorAny
    \/ SetLEDAny
    \/ StopAll

SpecEnc == Init /\ [][NextEnc]_vars

\* the notification decoder driven over well-formed and malformed input
NextDec ==
    \/ Scan
    \/ Connect
    \/ OnConnect
    \/ OnMessageAny
    \/ Reset
    \/ LinkLoss
    \/ Disconnect

SpecDec == Init /\ [][NextDec]_vars

\* the sensor blocks evaluated on the snapshots a session goes through
NextHat ==
    \/ Scan
    \/ Connect
    \/ OnConnect
    \/ OnMessage
    \/ Disconnect
    \/ HatInfrared

SpecHat == Init /\ [][NextHat]_vars

\* the infrared comparison with either id, between notifications and resets
NextInfrared ==
    \/ Scan
    \/ Connect
    \/ OnConnect
    \/ OnMessage
    \/ Reset
    \/ LinkLoss
    \/ Disconnect
    \/ HatInfraredAnyId

SpecInfrared == Init /\ [][NextInfrared]_vars

\* a session of each variant driven by the same handlers
NextPair ==
    \/ Scan
    \/ Connect
    \/ OnConnect
    \/ Reset
    \/ LinkLoss
    \/ Disconnect
    \/ SetMotorCommon
    \/ SetLED
    \/ StopAll
    \/ OnMessage
    \/ Tick

SpecPair == InitPair /\ [][NextPair]_vars

\* notifications in flight while the session connects and disconnects
NextFlight ==
    \/ Scan
    \/ Connect
    \/ OnConnect
    \/ Emit
    \/ Deliver
    \/ LinkLoss
    \/ Disconnect

SpecFlight == Init /\ [][NextFlight]_vars

\* the actuator commands of a session with commands and writes listed
NextOrder ==
    \/ Scan
    \/ Connect
    \/ OnConnect
    \/ Disconnect
    \/ SetMotor
    \/ SetLED
    \/ StopAll
    \/ StartTrace

SpecOrder == Init /\ [][NextOrder]_vars

\* the motor blocks driven over every choice of their menus
NextBlocks ==
    \/ Scan
    \/ Connect
    \/ OnConnect
    \/ CommandMotorOnAny
    \/ CommandMotorOffAny
    \/ StopAll

SpecBlocks == Init /\ [][NextBlocks]_vars

\* the session with the handles that scan() replaces followed
NextHandles ==
    \/ Scan
    \/ Connect
    \/ OnConnect
    \/ LinkLoss
    \/ Disconnect
    \/ SetMotor
    \/ OnMessage

SpecHandles == InitHandles /\ [][NextHandles]_vars

\* ------------------------------------------------------------------------
\* Properties
\* ------------------------------------------------------------------------

\* the handlers that build an actuator command and pass it to send()
Setters == {"setMotor", "setLED", "commandMotorOn", "commandMotorOff",
            "commandSetLedOn", "commandSetLedBlink"}

\* the sends of the last handler that reached the transport's write
Written == SelectSeq(last.sends, LAMBDA x : x.outcome = "write")

AllStopMotorFrame == <<85, 170, 3, 16, 0, 0>>

AllStopLedFrame == <<85, 170, 4, 3, 0, 0, 0>>

\* C1: whenever the link is established, the password frame is handed to
\* the transport's write, whatever the rate limiter's state is.
C1_PasswordAlwaysWritten ==
    last.op = "_onConnect" => Wire = <<Password(variant)>>

\* C2: the on-connect sequence leaves the rate limiter's window counter as
\* it found it.
C2_HandshakeLeavesLimiter ==
    last.op = "_onConnect" => lim.count = last.lim0.count

\* C3: on every link establishment the password write is submitted first,
\* the notification handler is registered after it and exactly once, and
\* no notification is processed on a link whose password write was not
\* submitted.
C3_PasswordBeforeNotifications ==
    /\ last.op = "_onConnect" =>
          /\ last.io = <<Io("write", Password(variant)),
                         Io("startNotifications", <<>>)>>
          /\ link.subs = 1
    /\ last.op = "_onMessage" => link.pwd

\* C4: the first 20 okayToSend() calls of a window return true, every later
\* call of the same window returns false, and the first call after the
\* window has elapsed returns true.
C4_RateLimiterWindow ==
    probe.rank > 0 =>
        /\ probe.rank <= 20 => probe.result
        /\ probe.rank > 20 => ~probe.result
        /\ probe.fresh => probe.result /\ probe.rank = 1

\* a call was rejected in a full window and the next call, made after the
\* window had elapsed, was permitted
C4_Witness == probe.fresh /\ probe.afterReject /\ probe.result /\ probe.rank = 1

\* C5: at most 20 actuator command frames are handed to the transport in
\* any trailing one-second interval.
C5_TrailingSecondCap == Len(actTimes) <= 20

\* C6: the frames handed to the transport by a handler are exactly the
\* frames of its own sends that the limiter permitted, in order; a send the
\* limiter rejected resolves without a write, and a handler that sends
\* nothing writes nothing, so a rejected frame is never written later.
C6_RejectedIsDropped ==
    /\ Wire = [i \in 1..Len(Written) |-> Written[i].frame]
    /\ last.op \in Setters /\ last.sends[1].outcome = "limited" => Wire = <<>>
    /\ last.op \notin Setters \union {"stopAll", "_onConnect"} => Wire = <<>>

\* a setter's command was rejected by the rate limiter
C6_Witness ==
    /\ last.op \in Setters
    /\ last.sends[1].outcome = "limited"
    /\ ble = "connected"

\* C7: when the session is not connected, a setter hands nothing to the
\* transport and its send() returns the resolved completion.
C7_OfflineSendIsNoOp ==
    last.op \in Setters /\ ble # "connected" =>
        /\ Wire = <<>>
        /\ Len(last.sends) = 1
        /\ last.sends[1].outcome = "offline"

\* a setter was called on a handle whose link is not up
C7_Witness ==
    /\ last.op = "setMotor"
    /\ ble = "discovering"
    /\ last.sends[1].outcome = "offline"

\* C8: whenever PROJECT_STOP_ALL fires while the session is connected, the
\* all-motors-stop frame and the all-LEDs-off frame are handed to the
\* transport.
C8_StopAllAlwaysStops ==
    last.op = "stopAll" /\ ble = "connected" =>
        Wire = <<AllStopMotorFrame, AllStopLedFrame>>

\* C9: stopAll() does nothing when not connected; when connected and both
\* sends are permitted it writes the all-stop motor frame and then the
\* all-stop LED frame, the frame of setLED(ALL, OFF, 0, 0).
C9_StopAllFrames ==
    last.op = "stopAll" =>
        /\ ble # "connected" =>
              /\ Wire = <<>>
              /\ last.sends = <<>>
              /\ lim = last.lim0
        /\ ble = "connected" /\ Len(Written) = 2 =>
              /\ Wire = <<AllStopMotorFrame, AllStopLedFrame>>
              /\ Wire[2] = uint8ArrayToBase64(
                               setLEDcmd(ApitorQ_LedID.ALL, ApitorQ_LedColorID.OFF,
                                         Num(0), Num(0)))

\* stopAll() ran on an established link and both frames were written
C9_Witness ==
    /\ last.op = "stopAll"
    /\ ble = "connected"
    /\ Len(Wire) = 2

\* C10: the frame of commandSetLedBlink carries ON_TIME in byte 5 and
\* OFF_TIME in byte 6.
C10_BlinkTickOrder ==
    last.op = "commandSetLedBlink" /\ Len(Wire) = 1 =>
        /\ SubSeq(Wire[1], 1, 3) = <<85, 170, 4>>
        /\ Wire[1][5] = wrapClamp(last.args.LED_COLOR_ID, 0, 7)
        /\ Wire[1][6] = last.args.ON_TIME
        /\ Wire[1][7] = last.args.OFF_TIME

\* the frame the last setter built, as send() would write it
Built == last.sends[1].frame

\* C11: setMotor(id, s) with s in [-16,16] builds [0x55,0xAA,0x03,id',dir,mag]
\* where dir is STOP iff s = 0, D1 for s > 0, D2 for s < 0, and mag = |s|.
C11_MotorDirectionMagnitude ==
    last.op = "setMotor" =>
        LET s == last.args[2]
        IN  /\ Len(Built) = 6
            /\ SubSeq(Built, 1, 3) = <<85, 170, 3>>
            /\ Built[5] = 0 <=> s = 0
            /\ s > 0 => Built[5] = 1
            /\ s < 0 => Built[5] = 2
            /\ Built[6] = IF s < 0 THEN -s ELSE s
            /\ last.args = <<6, -5>> => Built = <<85, 170, 3, 6, 2, 5>>

\* setMotor(M1, -5) was written on an established link
C11_Witness ==
    /\ last.op = "setMotor"
    /\ last.args = <<6, -5>>
    /\ Wire = <<(<<85, 170, 3, 6, 2, 5>>)>>

\* C12: the id byte of a motor frame is the all-stop id 0x10 exactly when
\* the caller passed ALL (0x09) with speed 0; otherwise it is the caller's id.
C12_MotorTargetId ==
    last.op = "setMotor" =>
        LET id == last.args[1]
            s == last.args[2]
        IN  /\ Built[4] = 16 <=> (id = 9 /\ s = 0)
            /\ ~(id = 9 /\ s = 0) => Built[4] = id

\* setMotor(ALL, 0) was written with the all-stop id
C12_Witness ==
    /\ last.op = "setMotor"
    /\ last.args = <<9, 0>>
    /\ Len(Wire) = 1
    /\ Wire[1][4] = 16

\* C13: the id byte of a LED frame is the all-stop id 0x03, not 0x04, when
\* the caller passed ALL with colour OFF; otherwise id byte and colour byte
\* are the caller's values.
C13_LedTargetId ==
    last.op = "setLED" =>
        LET id == last.args[1]
            color == last.args[2]
        IN  /\ Len(Built) = 7
            /\ id = 4 /\ color = 0 => Built[4] = 3 /\ Built[5] = 0
            /\ ~(id = 4 /\ color = 0) => Built[4] = id /\ Built[5] = color

\* setLED(ALL, OFF, 0, 0) was written with the all-stop id
C13_Witness ==
    /\ last.op = "setLED"
    /\ last.args = <<4, 0, Num(0), Num(0)>>
    /\ Wire = <<(<<85, 170, 4, 3, 0, 0, 0>>)>>

\* C14: every actuator frame handed to the transport starts with 0x55,0xAA
\* and its third byte is the number of bytes after it: motor frames have 6
\* bytes and third byte 3, LED frames 7 bytes and third byte 4.
C14_FrameLengthByte ==
    last.op \in Setters \union {"stopAll"} =>
        /\ \A i \in 1..Len(Wire) :
              /\ Wire[i][1] = 85
              /\ Wire[i][2] = 170
              /\ Wire[i][3] = Len(Wire[i]) - 3
              /\ Wire[i][3] \in {3, 4}
        /\ last.op = "setMotor" /\ Len(Wire) = 1 => Len(Wire[1]) = 6
        /\ last.op = "setLED" /\ Len(Wire) = 1 => Len(Wire[1]) = 7
        /\ last.op = "stopAll" /\ Len(Wire) = 2 =>
              Len(Wire[1]) = 6 /\ Len(Wire[2]) = 7

\* a LED frame with blink ticks was written
C14_Witness ==
    /\ last.op = "setLED"
    /\ Len(Wire) = 1
    /\ Wire[1][3] = 4
    /\ Wire[1][6] > 0

\* C15 as stated: the password frame written on connect has exactly 18
\* bytes and begins with 0x55, 0xAA, 0x11.
C15_PasswordEighteenBytes ==
    last.op = "_onConnect" /\ Len(Wire) = 1 =>
        /\ Len(Wire[1]) = 18
        /\ SubSeq(Wire[1], 1, 3) = <<85, 170, 17>>

\* C15 amended: the password frame written on connect is, for each
\* variant, the fixed sequence of exactly 20 bytes given in the source
\* (55aa1120 64796f7a574f50663035326757565034 for Q,
\* 55aa1120 55494d384c5679526e75706973654276 for X); it begins with
\* 0x55, 0xAA, 0x11 and 0x11 is the number of bytes after it.
C15_PasswordTwentyBytes ==
    last.op = "_onConnect" /\ Len(Wire) = 1 =>
        /\ Len(Wire[1]) = 20
        /\ SubSeq(Wire[1], 1, 3) = <<85, 170, 17>>
        /\ Wire[1][3] = Len(Wire[1]) - 3
        /\ variant = "Q" =>
              Wire[1] = <<85, 170, 17, 32, 100, 121, 111, 122, 87, 79,
                          80, 102, 48, 53, 50, 103, 87, 86, 80, 52>>
        /\ variant = "X" =>
              Wire[1] = <<85, 170, 17, 32, 85, 73, 77, 56, 76, 86,
                          121, 82, 110, 117, 112, 105, 115, 101, 66, 118>>

\* the password of a variant Q session was written on connect
C15_Witness ==
    /\ last.op = "_onConnect"
    /\ variant = "Q"
    /\ Len(Wire) = 1
    /\ link.pwd

\* C16: a notification of 8 bytes with the header 0x55 0xAA 0x05 sets the
\* colour to byte 4, the first infrared reading to byte 5 and the power to
\* byte 7; variant X also sets the second infrared reading to byte 6;
\* byte 3 and, on variant Q, byte 6 reach no field.  The frame
\* 55 AA 05 00 03 07 00 09 gives colour 3, infrared 7, power 9 on variant Q.
C16_NotificationDecoding ==
    (last.op = "_onMessage" /\ ValidNotification(last.args)) =>
        /\ sensor.sensorColor = last.args[5]
        /\ sensor.sensorInfrared1 = last.args[6]
        /\ sensor.sensorPower = last.args[8]
        /\ (variant = "X") => (sensor.sensorInfrared2 = last.args[7])
        /\ (variant = "Q") =>
               (DOMAIN sensor = {"sensorColor", "sensorInfrared1", "sensorPower"})
        /\ (variant = "Q" /\ last.args = <<85, 170, 5, 0, 3, 7, 0, 9>>) =>
               (sensor = [sensorColor |-> 3, sensorInfrared1 |-> 7,
                          sensorPower |-> 9])

C16_Witness ==
    /\ last.op = "_onMessage"
    /\ variant = "Q"
    /\ last.args = <<85, 170, 5, 1, 3, 7, 4, 9>>
    /\ last.sensor0.sensorPower = 0
    /\ sensor.sensorPower = 9

\* C17: a notification that is not exactly 8 bytes long or does not start
\* 0x55 0xAA 0x05 leaves every field of the snapshot as it was.
C17_MalformedIsDiscarded ==
    (last.op = "_onMessage" /\ ~ValidNotification(last.args)) =>
        /\ sensor = last.sensor0
        /\ last.io = <<>>

C17_Witness ==
    /\ last.op = "_onMessage"
    /\ Len(last.args) = 9
    /\ last.sensor0.sensorInfrared1 = 7
    /\ last.sensor0.sensorPower = 0
    /\ sensor.sensorInfrared1 = 7
    /\ sensor.sensorPower = 0

\* C18: the snapshot is all zero when no notification was accepted since
\* the last reset, and otherwise every field is the byte of the one
\* notification accepted last.
C18_SnapshotOfOneFrame ==
    IF accepted = <<>>
    THEN \A f \in DOMAIN sensor : sensor[f] = 0
    ELSE /\ sensor.sensorColor = accepted[1][5]
         /\ sensor.sensorInfrared1 = accepted[1][6]
         /\ sensor.sensorPower = accepted[1][8]
         /\ (variant = "X") => (sensor.sensorInfrared2 = accepted[1][7])

C18_Witness ==
    /\ last.op = "_onMessage"
    /\ ValidNotification(last.args)
    /\ variant = "X"
    /\ last.sensor0.sensorInfrared2 = 4
    /\ last.sensor0.sensorPower = 9
    /\ sensor.sensorInfrared2 = 0
    /\ sensor.sensorPower = 0
    /\ sensor.sensorColor = 3
\* C19: after disconnect() and after a link loss reported by the transport
\* every field of the snapshot is 0 and isConnected() is false.
C19_TeardownClearsSnapshot ==
    (last.op \in {"disconnect", "linkLoss"}) =>
        /\ \A f \in DOMAIN sensor : sensor[f] = 0
        /\ ~isConnected(ble)

C19_Witness ==
    /\ last.op = "disconnect"
    /\ last.conn
    /\ variant = "X"
    /\ last.sensor0.sensorInfrared2 = 4
    /\ last.sensor0.sensorPower = 5
    /\ sensor.sensorInfrared2 = 0
    /\ ble = "closed"

\* C20: a disconnect() raises nothing, whether there is a handle or not and
\* whether the link is up or not, and a disconnect() directly after a
\* disconnect() leaves the connection state and the all-zero snapshot of
\* the first one.
C20_DisconnectIdempotent ==
    [][(last'.op = "disconnect") =>
          /\ \A i \in DOMAIN last'.io : last'.io[i].api # "throw"
          /\ (last.op = "disconnect") =>
                 /\ ble' = ble
                 /\ link' = link
                 /\ isConnected(ble') = isConnected(ble)
                 /\ sensor' = sensor
                 /\ \A f \in DOMAIN sensor' : sensor'[f] = 0]_vars

C20_Witness ==
    /\ last.op = "disconnect"
    /\ last.again
    /\ ~last.conn
    /\ ble = "closed"
    /\ last.io = <<Io("disconnect", <<>>)>>
\* C21: isConnected() is false before the first scan(), after scan() until
\* the link is up, and after disconnect() or a link loss; it is true exactly
\* while the transport holds an established link.
C21_ConnectedOnlyWhileLinked ==
    /\ isConnected(ble) <=> (link.subs > 0)
    /\ (last.op \in {"constructor", "scan", "disconnect", "linkLoss"})
           => ~isConnected(ble)
    /\ (last.op = "connect" /\ ~last.conn) => ~isConnected(ble)
    /\ (last.op = "_onConnect") => isConnected(ble)

C21_Witness ==
    /\ last.op = "connect"
    /\ ble = "connecting"
    /\ ~isConnected(ble)

\* C22: handling a notification, valid or malformed, hands nothing to the
\* transport and leaves the connection state and the rate limiter as they
\* were.
C22_DecoderOnlyTouchesSnapshot ==
    [][(last'.op = "_onMessage") =>
          /\ last'.io = <<>>
          /\ last'.sends = <<>>
          /\ ble' = ble
          /\ link' = link
          /\ lim' = lim]_vars

C22_Witness ==
    /\ last.op = "_onMessage"
    /\ ValidNotification(last.args)
    /\ sensor # last.sensor0
    /\ lim = last.lim0
    /\ lim.count > 1
    /\ last.io = <<>>
\* the reading the INFRARED_ID argument of the last hatInfrared selects
Selected ==
    IF variant = "X" /\ last.args.INFRARED_ID = ApitorX_InfraredID.R2
    THEN sensor.sensorInfrared2
    ELSE sensor.sensorInfrared1

\* C23: the infrared comparison is false for every operator other than
\* "<", "=", ">", and for these three it is the comparison of the selected
\* infrared reading with the reference.
C23_InfraredComparison ==
    (last.op = "hatInfrared") =>
        /\ (last.args.OP \notin {"<", "=", ">"}) => (last.ret = <<FALSE>>)
        /\ (last.args.OP = "<") => (last.ret = <<Selected < last.args.REFERENCE>>)
        /\ (last.args.OP = "=") => (last.ret = <<Selected = last.args.REFERENCE>>)
        /\ (last.args.OP = ">") => (last.ret = <<Selected > last.args.REFERENCE>>)

C23_Witness ==
    /\ last.op = "hatInfrared"
    /\ last.args.OP = "<="
    /\ variant = "X"
    /\ last.args.INFRARED_ID = ApitorX_InfraredID.R2
    /\ sensor.sensorInfrared2 = 4
    /\ last.args.REFERENCE = 4
    /\ last.ret = <<FALSE>>
C25_RejectionLeavesLimiter ==
    /\ (last.sends # <<>>
          /\ \A i \in 1..Len(last.sends) : last.sends[i].outcome = "limited")
           => (lim = last.lim0)
    /\ (last.sends # <<>> /\ last.sends[Len(last.sends)].outcome = "limited")
           => (lim.start = last.lim0.start /\ lim.count = BLESendRateMax)

C25_Witness ==
    /\ last.op = "stopAll"
    /\ Len(last.sends) = 2
    /\ last.sends[1].outcome = "limited"
    /\ last.sends[2].outcome = "limited"
    /\ probe.afterReject
    /\ lim = last.lim0
    /\ now > lim.start

\* C26: a scan() called while a link is established leaves isConnected()
\* false and every field of the snapshot 0.
C26_ScanClearsSnapshot ==
    (last.op = "scan" /\ last.conn) =>
        /\ ~isConnected(ble)
        /\ \A f \in DOMAIN sensor : sensor[f] = 0
Established ==
    (IF ble = "connected" THEN 1 ELSE 0)
    + (IF old # <<>> /\ "connected" \in old[1] THEN 1 ELSE 0)

\* C28: every handle that scan() replaced was disconnected first, so the
\* handle of the most recent scan() is the only one that can hold a link and
\* at most one link is established; scan() calls disconnect() on the old
\* handle before it creates the new one, and connect(id) calls the current
\* handle and leaves the replaced ones alone.
C28_OneHandleOneLink ==
    [][/\ Established' <= 1
       /\ (old' # <<>>) => (old'[1] \subseteq {"closed"})
       /\ (last'.op = "scan" /\ ble # "null") =>
              (last'.io = <<Io("disconnect", <<>>), Io("new", <<>>)>>)
       /\ (last'.op = "scan" /\ ble = "null") => (last'.io = <<Io("new", <<>>)>>)
       /\ (last'.op = "connect") =>
              /\ old' = old
              /\ (ble # "null") => (last'.io = <<Io("connectPeripheral", <<>>)>>)
              /\ (ble = "null") => (last'.io = <<>> /\ ble' = ble)]_vars

C28_Witness ==
    /\ old = <<{"closed"}>>
    /\ ble = "connected"
    /\ last.op = "_onConnect"
    /\ Established = 1
\* the motor frames the last handler passed to send()
MotorFrames ==
    SelectSeq([i \in 1..Len(last.sends) |-> last.sends[i].frame],
              LAMBDA f : f[3] = 3)

\* C30: every motor frame built by commandMotorOn with a speed of 1..16 and
\* a direction D1 or D2, by commandMotorOff or by stopAll has a magnitude
\* byte in 0..16; the frame of commandMotorOn has the selected direction as
\* its direction byte and the selected speed as its magnitude byte.
C30_BlockMotorFrames ==
    (last.op \in {"commandMotorOn", "commandMotorOff", "stopAll"}) =>
        /\ \A i \in 1..Len(MotorFrames) :
               /\ Len(MotorFrames[i]) = 6
               /\ MotorFrames[i][6] \in 0..MaxSpeed
        /\ (last.op = "commandMotorOn") =>
               /\ Len(MotorFrames) = 1
               /\ MotorFrames[1][5] = last.args.MOTOR_DIRECTION_ID
               /\ MotorFrames[1][6] = last.args.MOTOR_SPEED
        /\ (last.op = "commandMotorOff") =>
               /\ Len(MotorFrames) = 1
               /\ MotorFrames[1][5] = ApitorQ_MotorDirectionID.STOP
               /\ MotorFrames[1][6] = 0

C30_Witness ==
    /\ last.op = "commandMotorOn"
    /\ last.args.MOTOR_DIRECTION_ID = ApitorQ_MotorDirectionID.D2
    /\ last.args.MOTOR_SPEED = MaxSpeed
    /\ Len(Wire) = 1
    /\ Wire[1][5] = 2
    /\ Wire[1][6] = MaxSpeed
\* the listed commands that send() passed on to the transport
Transmitted == SelectSeq(trace[1].calls, LAMBDA x : x.outcome = "write")

\* C29: the frames handed to the transport's write are the frames of the
\* setMotor / setLED / stopAll commands in the order of the calls, without
\* the commands dropped for a missing link or by the rate limiter, each
\* transmitted frame once.
C29_WritesInCallOrder ==
    (trace # <<>>) =>
        (trace[1].wire = [i \in 1..Len(Transmitted) |-> Transmitted[i].frame])

C29_Witness ==
    /\ trace # <<>>
    /\ Len(trace[1].wire) >= 2
    /\ trace[1].wire[1] # trace[1].wire[2]
    /\ \E i \in 1..Len(trace[1].calls) : trace[1].calls[i].outcome = "limited"
\* the reading that the last hatInfrared is to compare: that of the named
\* sensor in the notification accepted last, 0 when there is none since
\* the last reset
Named ==
    IF accepted = <<>> THEN 0
    ELSE IF variant = "X" /\ last.args.INFRARED_ID = ApitorX_InfraredID.R2
         THEN accepted[1][7]
         ELSE accepted[1][6]

\* C31: on variant X the infrared comparison with INFRARED_ID = R1 compares
\* the first infrared reading and with R2 the second; on variant Q every
\* call compares the first; the reading is that of the notification
\* accepted last, or 0 after a reset.
C31_InfraredNamedSensor ==
    (last.op = "hatInfrared" /\ last.args.OP \in {"<", "=", ">"}) =>
        /\ (last.args.OP = "<") => (last.ret = <<Named < last.args.REFERENCE>>)
        /\ (last.args.OP = "=") => (last.ret = <<Named = last.args.REFERENCE>>)
        /\ (last.args.OP = ">") => (last.ret = <<Named > last.args.REFERENCE>>)

C31_Witness ==
    /\ last.op = "hatInfrared"
    /\ variant = "X"
    /\ last.args = [INFRARED_ID |-> ApitorX_InfraredID.R2, OP |-> "=",
                    REFERENCE |-> 4]
    /\ accepted = <<(<<85, 170, 5, 1, 1, 2, 4, 5>>)>>
    /\ last.ret = <<TRUE>>
\* C32: a setMotor, setLED or stopAll made while the session is not
\* connected does not reach the rate limiter: the limiter's counter and
\* window are the same after the handler as before it, and none of its
\* sends is counted as rejected by the limiter.
C32_OfflineSendKeepsBudget ==
    (last.op \in Setters \union {"stopAll"} /\ ~last.conn) =>
        /\ lim = last.lim0
        /\ \A i \in 1..Len(last.sends) : last.sends[i].outcome = "offline"

C32_Witness ==
    /\ last.op = "setMotor"
    /\ ~last.conn
    /\ ble = "closed"
    /\ lim.count = BLESendRateMax
    /\ now - lim.start >= Window
    /\ lim = last.lim0
    /\ last.sends[1].outcome = "offline"

\* C33: reset() sets every field of the snapshot to 0 and leaves the handle,
\* the connection state and the rate limiter as they were; a link loss and
\* the reconnection calls that follow do not touch the limiter either.
C33_ResetOnlyClearsSnapshot ==
    [][/\ (last'.op = "reset") =>
             /\ \A f \in DOMAIN sensor' : sensor'[f] = 0
             /\ ble' = ble
             /\ link' = link
             /\ lim' = lim
             /\ last'.io = <<>>
             /\ last'.sends = <<>>
       /\ (last'.op \in {"linkLoss", "disconnect", "scan", "connect"}) =>
             (lim' = lim)]_vars

C33_Witness ==
    /\ last.op = "reset"
    /\ last.conn
    /\ ble = "connected"
    /\ last.sensor0.sensorPower = 9
    /\ sensor.sensorPower = 0
    /\ lim.count > 1
    /\ lim = last.lim0

\* C34: connect(id) without a handle calls nothing, raises nothing and
\* leaves the connection state, the snapshot and the limiter as they were.
C34_ConnectWithoutHandle ==
    [][(last'.op = "connect" /\ ble = "null") =>
          /\ last'.io = <<>>
          /\ last'.sends = <<>>
          /\ ble' = "null"
          /\ ~isConnected(ble')
          /\ link' = link
          /\ sensor' = sensor
          /\ lim' = lim]_vars

C34_Witness ==
    /\ last.op = "connect"
    /\ ble = "null"
    /\ last.io = <<>>
    /\ ~last.conn
====
